---------------------------- MODULE Spec2Model ----------------------------
(***************************************************************************)
(* State-machine model of the TappedIn chat widget (src/src/App.tsx): the  *)
(* React state of each browser tab, the Supabase "messages" table, the     *)
(* realtime insert-notification stream and the requests in flight between  *)
(* them.  Strings that the code trims are sequences of chunks, a chunk     *)
(* being either the whitespace " " or a run of non-whitespace text.        *)
(***************************************************************************)
EXTENDS Integers, Sequences, FiniteSets, TLC

(* ------------------------------ bounds --------------------------------- *)

\* ids drawn from generateId() over one run
MaxGen == 5
\* inserts one tab sends to the backend over one run (each join, send and
\* sign-off against a usable client sends one)
MaxRequests == 2

\* the latest time the clock reaches, in ms
MaxNow == 61000

\* a user counts as online if seen in the last 60000 ms
StalenessWindow == 60000

\* the readings of the clock at which the program is observed, in ms
Instants == {0, 1000, 60000, 61000}

\* .limit(100) of the historical fetch
FetchLimit == 100

\* the tabs; they share one localStorage and one backend
Clients == {"A", "B"}

\* what a user types into the screen-name field
NameInputs == {<<"Alice", " ">>}
\* screen names with nothing but whitespace in them
BlankNameInputs == {<<>>, <<" ">>, <<" ", " ">>}
\* message bodies with nothing but whitespace in them
BlankMessageInputs == {<<>>, <<" ">>}
\* what a user types into the message field
MessageInputs == {<<" ", "hi">>}

\* VITE_SUPABASE_URL / VITE_SUPABASE_ANON_KEY: absent, usable, or set but
\* rejected by createClient (the catch leaves supabase null)
Envs == {"missing", "ok", "invalid"}

VARIABLES
    env,                  \* the build's configuration, one of Envs
    now,                  \* Date.now()
    genCount,             \* ids handed out by generateId so far
    issued,               \* [Clients -> inserts sent to the backend so far]
    currentUser,          \* [Clients -> User or Null]
    messages,             \* [Clients -> Seq(Message)]
    usernameInput,        \* [Clients -> string]
    messageInput,         \* [Clients -> string]
    isSupabaseConfigured, \* [Clients -> BOOLEAN]
    isConnected,          \* [Clients -> BOOLEAN]
    connectionError,      \* [Clients -> error text or NoError]
    storage,              \* localStorage item 'tappedin_current_user'
    rows,                 \* the messages table, in insertion order
    calls,                \* [Clients -> Seq(sendMessage calls awaiting)]
    fetches,              \* [Clients -> Seq(fetchMessages calls awaiting)]
    chan,                 \* [Clients -> state of messagesChannelRef]
    pending,              \* [Clients -> row numbers with a notification queued]
    delivered,            \* [Clients -> row numbers whose notification has run]
    users,                \* [Clients -> Seq(User)], the last presence sync
    presence,             \* [Clients -> what the tab's connection tracks, or Null]
    pchan                 \* [Clients -> state of presenceChannelRef]

vars == <<env, now, genCount, issued, currentUser, messages, usernameInput,
          messageInput, isSupabaseConfigured, isConnected, connectionError,
          storage, rows, calls, fetches, chan, pending, delivered, users,
          presence, pchan>>

clientVars == <<currentUser, messages, usernameInput, messageInput,
                isSupabaseConfigured, isConnected, connectionError>>
netVars == <<issued, rows, calls, fetches, chan, pending, delivered>>
presVars == <<users, presence, pchan>>

(* ------------------------------ values --------------------------------- *)

Null == [null |-> TRUE]
NoError == "null"
\* the text the configuration effect puts into connectionError
NotConfiguredError ==
    "Supabase not configured. Chat will work in local-only mode."
SystemId == <<"system">>
SystemName == <<"System">>

\* the module-level `supabase` client: non-null only when both variables
\* are set and createClient did not throw
supabase == env = "ok"

\* SUPABASE_URL && SUPABASE_ANON_KEY
credentialsSet == env # "missing"

\* String.prototype.trim on a chunk sequence
RECURSIVE TrimStart(_)
TrimStart(s) ==
    IF s = <<>> THEN <<>>
    ELSE IF Head(s) = " " THEN TrimStart(Tail(s)) ELSE s

RECURSIVE TrimEnd(_)
TrimEnd(s) ==
    IF s = <<>> THEN <<>>
    ELSE IF s[Len(s)] = " " THEN TrimEnd(SubSeq(s, 1, Len(s) - 1)) ELSE s

\* a trim that returns its argument
TrimNothing(s) == s

Trim(s) == TrimEnd(TrimStart(s))

\* generateId(): the k-th random id; distinct draws are taken to differ
generateId(k) == <<"gen", k>>

\* gen_random_uuid(), the table's default for id
genRandomUuid(k) == <<"uuid", k>>

\* new Date(ms).toISOString() and new Date(iso).getTime()
toISOString(ms) == <<"iso", ms>>
getTime(iso) == iso[2]

\* JSON.stringify / JSON.parse of the saved user
JSONstringify(user) == <<"json", user>>
JSONparse(item) == item[2]

\* the object track() sends for a user at time t
TrackPayload(user, t) ==
    [user_id |-> user.id, username |-> user.username,
     status |-> user.status, last_seen |-> t]

EnteredText(name) == name \o <<" has entered the chat">>
EnteredLocalText(name) == name \o <<" has entered the chat (local mode)">>
LeftText(name) == name \o <<" has left the chat">>

Ids(log) == {log[i].id : i \in 1..Len(log)}

\* the row numbers the table can reach
RowNumbers == 1..(MaxRequests * Cardinality(Clients))

(* ------------------------------- Init ---------------------------------- *)

\* The state once the mount effects have run on an empty localStorage:
\* no saved user, isSupabaseConfigured set from the credentials, and the
\* "not configured" banner when they are missing.
Init ==
    /\ env \in Envs
    /\ now = 0
    /\ genCount = 0
    /\ issued = [c \in Clients |-> 0]
    /\ currentUser = [c \in Clients |-> Null]
    /\ messages = [c \in Clients |-> <<>>]
    /\ usernameInput = [c \in Clients |-> <<>>]
    /\ messageInput = [c \in Clients |-> <<>>]
    /\ isSupabaseConfigured = [c \in Clients |-> credentialsSet]
    /\ isConnected = [c \in Clients |-> FALSE]
    /\ connectionError =
         [c \in Clients |-> IF credentialsSet THEN NoError
                            ELSE NotConfiguredError]
    /\ storage = Null
    /\ rows = <<>>
    /\ calls = [c \in Clients |-> <<>>]
    /\ fetches = [c \in Clients |-> <<>>]
    /\ chan = [c \in Clients |-> "none"]
    /\ pending = [c \in Clients |-> {}]
    /\ delivered = [c \in Clients |-> {}]
    /\ users = [c \in Clients |-> <<>>]
    /\ presence = [c \in Clients |-> Null]
    /\ pchan = [c \in Clients |-> "none"]


(* ------------------------- the Message Log ----------------------------- *)

\* the DbMessage -> Message mapping of fetchMessages and of the INSERT handler
FormatMessage(msg) ==
    [id |-> msg.id, userId |-> msg.user_id, username |-> msg.username,
     text |-> msg.text, timestamp |-> getTime(msg.timestamp),
     type |-> msg.type]

\* LiveAppend without the find: every notification appends
LiveAppendNoDedup(prev, message) == Append(prev, message)

\* LiveAppend that replaces the stored copy by the new one at the end
LiveAppendMoveToEnd(prev, message) ==
    Append(SelectSeq(prev, LAMBDA m : m.id # message.id), message)

\* LiveAppend that puts the new event at its place in timestamp order
LiveAppendSorted(prev, message) ==
    IF \E i \in 1..Len(prev) : prev[i].id = message.id
    THEN prev
    ELSE SelectSeq(prev, LAMBDA m : m.timestamp <= message.timestamp)
           \o <<message>>
           \o SelectSeq(prev, LAMBDA m : m.timestamp > message.timestamp)

\* setMessages((prev) => prev.find(m => m.id === message.id) ? prev : [...prev, message])
LiveAppend(prev, message) ==
    IF \E i \in 1..Len(prev) : prev[i].id = message.id
    THEN prev
    ELSE Append(prev, message)

\* setMessages(formattedMessages)
LoadBatch(prev, formattedMessages) == formattedMessages

\* LocalAppend with the spread on the wrong side: [message, ...prev]
LocalPrepend(prev, message) == <<message>> \o prev

\* setMessages(prev => [...prev, message]) of the local-only branches
LocalAppend(prev, message) == Append(prev, message)

\* a local-only setMessages that reaches every tab's log
SetMessagesEveryTab(c, message) ==
    [d \in Clients |-> LocalAppend(messages[d], message)]

\* the local-only setMessages acts on the state of the tab it runs in
SetMessagesLocal(c, message) ==
    [messages EXCEPT ![c] = LocalAppend(@, message)]

\* the row the insert of sendMessage stores; id is the table's default
InsertRow(message, k) ==
    [id |-> genRandomUuid(k), user_id |-> message.userId,
     username |-> message.username, text |-> message.text,
     timestamp |-> toISOString(message.timestamp), type |-> message.type]

Min(a, b) == IF a < b THEN a ELSE b

\* .order('timestamp', {ascending: true}): the table sorted by timestamp,
\* rows with equal timestamps in the order they were stored
RECURSIVE OrderByTimestamp(_)
OrderByTimestamp(table) ==
    IF Len(table) <= 1 THEN table
    ELSE LET pivot == getTime(table[(Len(table) + 1) \div 2].timestamp)
             Earlier(row) == getTime(row.timestamp) < pivot
             Same(row) == getTime(row.timestamp) = pivot
             Later(row) == getTime(row.timestamp) > pivot
         IN OrderByTimestamp(SelectSeq(table, Earlier))
              \o SelectSeq(table, Same)
              \o OrderByTimestamp(SelectSeq(table, Later))

\* .limit(n): the first n rows of the result
Limit(s, n) == SubSeq(s, 1, Min(Len(s), n))

\* .order('timestamp', {ascending: true}).limit(100): what the select of
\* fetchMessages returns on the table as it is
FetchResults == {Limit(OrderByTimestamp(rows), FetchLimit)}

RemoveAt(s, i) == SubSeq(s, 1, i - 1) \o SubSeq(s, i + 1, Len(s))

(* --------------------------- the effects ------------------------------- *)

\* sendMessage up to its await: nothing without a client, else the insert
\* request is issued and the caller is suspended
IssueCall(c, kind, message) ==
    IF supabase
    THEN /\ issued[c] < MaxRequests
         /\ issued' = [issued EXCEPT ![c] = @ + 1]
         /\ calls' = [calls EXCEPT ![c] =
                        Append(@, [kind |-> kind, message |-> message,
                                   stage |-> "sent"])]
    ELSE UNCHANGED <<issued, calls>>

\* the effect of lines 210-255 for a new non-null user: fetchMessages() is
\* started and the 'messages' channel is subscribed
StartRealtime(c, user) ==
    IF supabase
    THEN /\ fetches' = [fetches EXCEPT ![c] =
                          Append(@, [session |-> user.id, stage |-> "sent",
                                     data |-> <<>>])]
         /\ chan' = [chan EXCEPT ![c] = "joining"]
    ELSE UNCHANGED <<fetches, chan>>

\* the effect of lines 258-322 for a new non-null user: the presence
\* channel keyed by the user's id is created and subscribed
StartPresence(c, user) ==
    IF supabase
    THEN pchan' = [pchan EXCEPT ![c] = "joining"]
    ELSE UNCHANGED pchan

(* ------------------------------ typing --------------------------------- *)

\* onChange of the screen-name field (the dialog opens only without a user)
SetUsernameInput(c, s) ==
    /\ currentUser[c] = Null
    /\ usernameInput[c] # s
    /\ usernameInput' = [usernameInput EXCEPT ![c] = s]
    /\ UNCHANGED <<env, now, genCount, currentUser, messages, messageInput,
                   isSupabaseConfigured, isConnected, connectionError,
                   storage, netVars>>
    /\ UNCHANGED presVars

\* onChange of the message field (the chat window shows only with a user)
SetMessageInput(c, s) ==
    /\ currentUser[c] # Null
    /\ messageInput[c] # s
    /\ messageInput' = [messageInput EXCEPT ![c] = s]
    /\ UNCHANGED <<env, now, genCount, currentUser, messages, usernameInput,
                   isSupabaseConfigured, isConnected, connectionError,
                   storage, netVars>>
    /\ UNCHANGED presVars

(* ------------------------------ handlers ------------------------------- *)

\* handleCreateUser together with the render it causes: a name that trims
\* to nothing returns at once; otherwise the save effect writes the new user
\* to localStorage and the realtime and presence effects start
HandleCreateUser(c) ==
    /\ currentUser[c] = Null
    /\ IF Trim(usernameInput[c]) = <<>>
       THEN UNCHANGED vars
       ELSE
       /\ genCount + (IF isSupabaseConfigured[c] THEN 1 ELSE 2) <= MaxGen
       /\ UNCHANGED <<users, presence>>
       /\ LET newUser == [id |-> generateId(genCount + 1),
                          username |-> Trim(usernameInput[c]),
                          status |-> "online", lastSeen |-> now]
          IN /\ currentUser' = [currentUser EXCEPT ![c] = newUser]
             /\ usernameInput' = [usernameInput EXCEPT ![c] = <<>>]
             /\ storage' = JSONstringify(newUser)
             /\ StartRealtime(c, newUser)
             /\ StartPresence(c, newUser)
             /\ IF isSupabaseConfigured[c]
                THEN /\ IssueCall(c, "join",
                           [userId |-> SystemId, username |-> SystemName,
                            text |-> EnteredText(newUser.username),
                            timestamp |-> now, type |-> "system"])
                     /\ genCount' = genCount + 1
                     /\ UNCHANGED messages
                ELSE /\ messages' = SetMessagesLocal(c,
                           [id |-> generateId(genCount + 2),
                            userId |-> SystemId, username |-> SystemName,
                            text |-> EnteredLocalText(newUser.username),
                            timestamp |-> now, type |-> "system"])
                     /\ genCount' = genCount + 2
                     /\ UNCHANGED <<issued, calls>>
       /\ UNCHANGED <<env, now, messageInput, isSupabaseConfigured, isConnected,
                      connectionError, rows, pending, delivered>>

\* handleSendMessage up to its await: a body that trims to nothing, or no
\* user, returns at once; without a usable client sendMessage returns at
\* once and the input is cleared in the same step
HandleSendMessage(c) ==
    IF Trim(messageInput[c]) = <<>> \/ currentUser[c] = Null
    THEN UNCHANGED vars
    ELSE
       /\ IF isSupabaseConfigured[c]
          THEN /\ IssueCall(c, "send",
                     [userId |-> currentUser[c].id,
                      username |-> currentUser[c].username,
                      text |-> Trim(messageInput[c]),
                      timestamp |-> now, type |-> "message"])
               /\ messageInput' = IF supabase THEN messageInput
                                  ELSE [messageInput EXCEPT ![c] = <<>>]
               /\ UNCHANGED <<messages, genCount>>
          ELSE /\ genCount < MaxGen
               /\ messages' = SetMessagesLocal(c,
                     [id |-> generateId(genCount + 1),
                      userId |-> currentUser[c].id,
                      username |-> currentUser[c].username,
                      text |-> Trim(messageInput[c]),
                      timestamp |-> now, type |-> "message"])
               /\ genCount' = genCount + 1
               /\ messageInput' = [messageInput EXCEPT ![c] = <<>>]
               /\ UNCHANGED <<issued, calls>>
       /\ UNCHANGED <<env, now, currentUser, usernameInput, isSupabaseConfigured,
                      isConnected, connectionError, storage, rows, fetches,
                      chan, pending, delivered>>
       /\ UNCHANGED presVars

\* a sign-off whose cleanup leaves the presence channel and its interval
\* running
LogoutTailKeepsTimer(c) ==
    /\ currentUser' = [currentUser EXCEPT ![c] = Null]
    /\ storage' = Null
    /\ chan' = [chan EXCEPT ![c] = "none"]
    /\ pending' = [pending EXCEPT ![c] = {}]
    /\ presence' = [presence EXCEPT ![c] = Null]
    /\ UNCHANGED pchan

\* lines 468-471 and the effect cleanups the null user causes: the item is
\* removed, the tab's presence is untracked and the channels of the
\* session, if any, are unsubscribed
LogoutTail(c) ==
    /\ currentUser' = [currentUser EXCEPT ![c] = Null]
    /\ storage' = Null
    /\ chan' = [chan EXCEPT ![c] = "none"]
    /\ pending' = [pending EXCEPT ![c] = {}]
    /\ presence' = [presence EXCEPT ![c] = Null]
    /\ pchan' = [pchan EXCEPT ![c] = "none"]

\* a handleLogout that tears the session down before awaiting the insert
HandleLogoutEager(c) ==
    /\ currentUser[c] # Null
    /\ LogoutTail(c)
    /\ IF isSupabaseConfigured[c] /\ supabase
       THEN IssueCall(c, "logout",
                [userId |-> SystemId, username |-> SystemName,
                 text |-> LeftText(currentUser[c].username),
                 timestamp |-> now, type |-> "system"])
       ELSE UNCHANGED <<issued, calls>>
    /\ UNCHANGED <<env, now, genCount, messages, usernameInput, messageInput,
                   isSupabaseConfigured, isConnected, connectionError, rows,
                   fetches, delivered, users>>

\* handleLogout up to its await; without a usable client it runs through
HandleLogout(c) ==
    /\ currentUser[c] # Null
    /\ IF isSupabaseConfigured[c] /\ supabase
       THEN /\ IssueCall(c, "logout",
                  [userId |-> SystemId, username |-> SystemName,
                   text |-> LeftText(currentUser[c].username),
                   timestamp |-> now, type |-> "system"])
            /\ UNCHANGED <<currentUser, storage, chan, pending, presence,
                           pchan>>
       ELSE /\ LogoutTail(c)
            /\ UNCHANGED <<issued, calls>>
    /\ UNCHANGED <<env, now, genCount, messages, usernameInput, messageInput,
                   isSupabaseConfigured, isConnected, connectionError, rows,
                   fetches, delivered, users>>

(* ------------------------------ backend -------------------------------- *)

\* the table stores the row of an awaited insert and the realtime service
\* queues its notification for every channel subscribed at that moment
DbInsert(c, i) ==
    /\ i \in 1..Len(calls[c])
    /\ calls[c][i].stage = "sent"
    /\ rows' = Append(rows, InsertRow(calls[c][i].message, Len(rows) + 1))
    /\ calls' = [calls EXCEPT ![c][i].stage = "ok"]
    /\ pending' = [d \in Clients |->
                     IF chan[d] = "joined" THEN pending[d] \cup {Len(rows) + 1}
                     ELSE pending[d]]
    /\ UNCHANGED <<env, now, genCount, issued, clientVars, storage, fetches, chan,
                   delivered>>
    /\ UNCHANGED presVars

\* the insert fails: an error result ("error") or a rejected request ("threw")
DbInsertFail(c, i, outcome) ==
    /\ i \in 1..Len(calls[c])
    /\ calls[c][i].stage = "sent"
    /\ calls' = [calls EXCEPT ![c][i].stage = outcome]
    /\ UNCHANGED <<env, now, genCount, issued, clientVars, storage, rows, fetches,
                   chan, pending, delivered>>
    /\ UNCHANGED presVars

\* the select of fetchMessages is evaluated on the table as it is now
DbSelect(c, i) ==
    /\ i \in 1..Len(fetches[c])
    /\ fetches[c][i].stage = "sent"
    /\ \E data \in FetchResults :
         fetches' = [fetches EXCEPT ![c][i].stage = "data",
                                    ![c][i].data = data]
    /\ UNCHANGED <<env, now, genCount, issued, clientVars, storage, rows, calls,
                   chan, pending, delivered>>
    /\ UNCHANGED presVars

\* the select fails: an error result ("error") or a rejected request ("threw")
DbSelectFail(c, i, outcome) ==
    /\ i \in 1..Len(fetches[c])
    /\ fetches[c][i].stage = "sent"
    /\ fetches' = [fetches EXCEPT ![c][i].stage = outcome]
    /\ UNCHANGED <<env, now, genCount, issued, clientVars, storage, rows, calls,
                   chan, pending, delivered>>
    /\ UNCHANGED presVars

(* ------------------------- awaited results ----------------------------- *)

\* a sendMessage that reports no failure
SendErrorSilent(stage, old) == old

\* setConnectionError of sendMessage, lines 381-388
SendError(stage, old) ==
    IF stage = "error" THEN "Failed to send"
    ELSE IF stage = "threw" THEN "Failed to send message"
    ELSE old

\* the await of sendMessage returns and the suspended handler runs on:
\* handleSendMessage clears the input, handleLogout tears the session down,
\* handleCreateUser has nothing left to do
SendMessageReturn(c, i) ==
    /\ i \in 1..Len(calls[c])
    /\ calls[c][i].stage # "sent"
    /\ calls' = [calls EXCEPT ![c] = RemoveAt(@, i)]
    /\ connectionError' = [connectionError EXCEPT ![c] =
                             SendError(calls[c][i].stage, @)]
    /\ messageInput' = IF calls[c][i].kind = "send"
                       THEN [messageInput EXCEPT ![c] = <<>>]
                       ELSE messageInput
    /\ IF calls[c][i].kind = "logout"
       THEN LogoutTail(c)
       ELSE UNCHANGED <<currentUser, storage, chan, pending, presence, pchan>>
    /\ UNCHANGED <<env, now, genCount, issued, messages, usernameInput,
                   isSupabaseConfigured, isConnected, rows, fetches,
                   delivered, users>>

\* setConnectionError of fetchMessages, lines 156-160 and 174-177
FetchError(stage, old) ==
    IF stage = "error" THEN "Database error"
    ELSE IF stage = "threw" THEN "Failed to connect to chat server"
    ELSE old

\* the await of fetchMessages returns: the rows are formatted and stored
FetchReturn(c, i) ==
    /\ i \in 1..Len(fetches[c])
    /\ fetches[c][i].stage # "sent"
    /\ fetches' = [fetches EXCEPT ![c] = RemoveAt(@, i)]
    /\ connectionError' = [connectionError EXCEPT ![c] =
                             FetchError(fetches[c][i].stage, @)]
    /\ messages' =
         IF fetches[c][i].stage = "data"
         THEN [messages EXCEPT ![c] =
                 LoadBatch(@, [k \in 1..Len(fetches[c][i].data) |->
                                 FormatMessage(fetches[c][i].data[k])])]
         ELSE messages
    /\ UNCHANGED <<env, now, genCount, issued, currentUser, usernameInput,
                   messageInput, isSupabaseConfigured, isConnected, storage,
                   rows, calls, chan, pending, delivered>>
    /\ UNCHANGED presVars

(* --------------------------- the channel ------------------------------- *)

\* the subscribe callback with SUBSCRIBED, on the first join or a rejoin
ChannelSubscribed(c) ==
    /\ chan[c] \in {"joining", "lost"}
    /\ chan' = [chan EXCEPT ![c] = "joined"]
    /\ isConnected' = [isConnected EXCEPT ![c] = TRUE]
    /\ connectionError' = [connectionError EXCEPT ![c] = NoError]
    /\ UNCHANGED <<env, now, genCount, issued, currentUser, messages, usernameInput,
                   messageInput, isSupabaseConfigured, storage, rows, calls,
                   fetches, pending, delivered>>
    /\ UNCHANGED presVars

\* a CLOSED / CHANNEL_ERROR callback that leaves the flags as they are
ChannelLostSilent(c) ==
    /\ chan[c] \in {"joining", "joined"}
    /\ chan' = [chan EXCEPT ![c] = "lost"]
    /\ pending' = [pending EXCEPT ![c] = {}]
    /\ UNCHANGED <<env, now, genCount, issued, clientVars, storage, rows,
                   calls, fetches, delivered, presVars>>

\* the subscribe callback with CLOSED or CHANNEL_ERROR; notifications in
\* flight on the channel are lost with it
ChannelLost(c) ==
    /\ chan[c] \in {"joining", "joined"}
    /\ chan' = [chan EXCEPT ![c] = "lost"]
    /\ isConnected' = [isConnected EXCEPT ![c] = FALSE]
    /\ connectionError' = [connectionError EXCEPT ![c] =
                             "Realtime connection lost"]
    /\ pending' = [pending EXCEPT ![c] = {}]
    /\ UNCHANGED <<env, now, genCount, issued, currentUser, messages, usernameInput,
                   messageInput, isSupabaseConfigured, storage, rows, calls,
                   fetches, delivered>>
    /\ UNCHANGED presVars

\* the postgres_changes INSERT handler runs for row r; the service delivers
\* at least once, so it may keep the notification and deliver it again
OnInsert(c, r, again) ==
    /\ r \in pending[c]
    /\ chan[c] = "joined"
    /\ messages' = [messages EXCEPT ![c] =
                      LiveAppend(@, FormatMessage(rows[r]))]
    /\ delivered' = [delivered EXCEPT ![c] = @ \cup {r}]
    /\ pending' = [pending EXCEPT ![c] = IF again THEN @ ELSE @ \ {r}]
    /\ UNCHANGED <<env, now, genCount, issued, currentUser, usernameInput,
                   messageInput, isSupabaseConfigured, isConnected,
                   connectionError, storage, rows, calls, fetches, chan>>
    /\ UNCHANGED presVars

\* the INSERT handler runs once for the earliest row queued for the tab
OnInsertInOrder(c) ==
    \E r \in pending[c] :
       /\ \A q \in pending[c] : r <= q
       /\ OnInsert(c, r, FALSE)

(* ----------------------------- presence -------------------------------- *)

\* the tabs in the order presenceState() lists their presences
ClientOrder == <<"A", "B">>

\* Object.values(state).flatMap(presences => presences.map(p => ({...}))):
\* one User for every presence the server holds, whatever its key
OnlineUsers ==
    LET tracked == SelectSeq(ClientOrder, LAMBDA c : presence[c] # Null)
    IN [k \in 1..Len(tracked) |->
          [id |-> presence[tracked[k]].user_id,
           username |-> presence[tracked[k]].username,
           status |-> presence[tracked[k]].status,
           lastSeen |-> presence[tracked[k]].last_seen]]

\* a filter that keeps a user seen exactly StalenessWindow ago
IsFreshInclusive(u, t) == t - u.lastSeen <= StalenessWindow

\* now - u.lastSeen < 60000
IsFresh(u, t) == t - u.lastSeen < StalenessWindow

\* getOnlineUsers(): users.filter(u => now - u.lastSeen < 60000)
getOnlineUsers(c) == SelectSeq(users[c], LAMBDA u : IsFresh(u, now))

\* the subscribe callback of the presence channel with SUBSCRIBED: the
\* tab's presence is tracked under the user's id
PresenceSubscribed(c) ==
    /\ pchan[c] = "joining"
    /\ pchan' = [pchan EXCEPT ![c] = "joined"]
    /\ presence' = [presence EXCEPT ![c] = TrackPayload(currentUser[c], now)]
    /\ UNCHANGED <<env, now, genCount, clientVars, storage, netVars, users>>

\* the 10-second interval fires: the presence is tracked again with a new
\* last_seen (a timer may fire late or not at all while the tab is throttled)
Heartbeat(c) ==
    /\ pchan[c] = "joined"
    /\ currentUser[c] # Null
    /\ presence[c] # TrackPayload(currentUser[c], now)
    /\ presence' = [presence EXCEPT ![c] = TrackPayload(currentUser[c], now)]
    /\ UNCHANGED <<env, now, genCount, clientVars, storage, netVars, users,
                   pchan>>

\* the 'sync' handler: users becomes the presences the server holds
PresenceSync(c) ==
    /\ pchan[c] = "joined"
    /\ users[c] # OnlineUsers
    /\ users' = [users EXCEPT ![c] = OnlineUsers]
    /\ UNCHANGED <<env, now, genCount, clientVars, storage, netVars,
                   presence, pchan>>

\* time passes: the clock moves on to a later instant
Tick(t) ==
    /\ now < t
    /\ t <= MaxNow
    /\ now' = t
    /\ UNCHANGED <<env, genCount, clientVars, storage, netVars, presVars>>

(* ------------------------------ page load ------------------------------ *)

\* The page of tab c is loaded again: its state starts over, its requests
\* and channels are gone with the old page, and the mount effects run: the
\* saved user, if any, becomes the current user and starts the realtime
\* and presence effects.
Mount(c) ==
    LET user == IF storage = Null THEN Null ELSE JSONparse(storage)
        live == supabase /\ user # Null
    IN /\ currentUser' = [currentUser EXCEPT ![c] = user]
       /\ messages' = [messages EXCEPT ![c] = <<>>]
       /\ users' = [users EXCEPT ![c] = <<>>]
       /\ usernameInput' = [usernameInput EXCEPT ![c] = <<>>]
       /\ messageInput' = [messageInput EXCEPT ![c] = <<>>]
       /\ isSupabaseConfigured' =
            [isSupabaseConfigured EXCEPT ![c] = credentialsSet]
       /\ isConnected' = [isConnected EXCEPT ![c] = FALSE]
       /\ connectionError' =
            [connectionError EXCEPT
               ![c] = IF credentialsSet THEN NoError ELSE NotConfiguredError]
       /\ calls' = [calls EXCEPT ![c] = <<>>]
       /\ fetches' =
            [fetches EXCEPT
               ![c] = IF live
                      THEN <<[session |-> user.id, stage |-> "sent",
                              data |-> <<>>]>>
                      ELSE <<>>]
       /\ chan' = [chan EXCEPT ![c] = IF live THEN "joining" ELSE "none"]
       /\ pending' = [pending EXCEPT ![c] = {}]
       /\ delivered' = [delivered EXCEPT ![c] = {}]
       /\ presence' = [presence EXCEPT ![c] = Null]
       /\ pchan' = [pchan EXCEPT ![c] = IF live THEN "joining" ELSE "none"]
       /\ UNCHANGED <<env, now, genCount, issued, storage, rows>>

(* ------------------------------- Next ---------------------------------- *)

Outcomes == {"error", "threw"}

\* every operation of the tabs in `active` and of the backend serving them
NextOf(active) ==
    \E c \in active :
       \/ \E s \in NameInputs : SetUsernameInput(c, s)
       \/ \E s \in MessageInputs : SetMessageInput(c, s)
       \/ HandleCreateUser(c)
       \/ HandleSendMessage(c)
       \/ HandleLogout(c)
       \/ \E i \in 1..MaxRequests :
            \/ DbInsert(c, i)
            \/ \E o \in Outcomes : DbInsertFail(c, i, o)
            \/ SendMessageReturn(c, i)
            \/ DbSelect(c, i)
            \/ \E o \in Outcomes : DbSelectFail(c, i, o)
            \/ FetchReturn(c, i)
       \/ ChannelSubscribed(c)
       \/ ChannelLost(c)
       \/ \E r \in RowNumbers, again \in BOOLEAN : OnInsert(c, r, again)

\* one tab against the backend, under every configuration
Next == NextOf({"A"})

Spec == Init /\ [][Next]_vars

\* the announcements a finished session of this user left in the table
PastRows(name) ==
    << InsertRow([userId |-> SystemId, username |-> SystemName,
                  text |-> EnteredText(name), timestamp |-> 0,
                  type |-> "system"], 1),
       InsertRow([userId |-> SystemId, username |-> SystemName,
                  text |-> LeftText(name), timestamp |-> 0,
                  type |-> "system"], 2) >>

\* A tab whose page has already run one whole networked session: Alice
\* joined, the fetch loaded her announcement, she signed off and the
\* departure was stored.  Nothing reset the log (setMessages is called by
\* the fetch and the appends only).  issued counts from here.
InitRejoin ==
    /\ env = "ok"
    /\ now = 0
    /\ genCount = 1
    /\ issued = [c \in Clients |-> 0]
    /\ currentUser = [c \in Clients |-> Null]
    /\ messages = [c \in Clients |->
                     IF c = "A"
                     THEN <<FormatMessage(PastRows(<<"Alice">>)[1])>>
                     ELSE <<>>]
    /\ usernameInput = [c \in Clients |-> <<>>]
    /\ messageInput = [c \in Clients |-> <<>>]
    /\ isSupabaseConfigured = [c \in Clients |-> TRUE]
    /\ isConnected = [c \in Clients |-> FALSE]
    /\ connectionError = [c \in Clients |-> NoError]
    /\ storage = Null
    /\ rows = PastRows(<<"Alice">>)
    /\ calls = [c \in Clients |-> <<>>]
    /\ fetches = [c \in Clients |-> <<>>]
    /\ chan = [c \in Clients |-> "none"]
    /\ pending = [c \in Clients |-> {}]
    /\ delivered = [c \in Clients |-> {}]
    /\ users = [c \in Clients |-> <<>>]
    /\ presence = [c \in Clients |-> Null]
    /\ pchan = [c \in Clients |-> "none"]

\* a second session in the same page
SpecRejoin == InitRejoin /\ [][Next]_vars

\* a table that holds one message more than the fetch loads, stored by an
\* earlier participant at times 1, 2, ... ms
HistoryLen == FetchLimit + 1

History ==
    [k \in 1..HistoryLen |->
       InsertRow([userId |-> generateId(0), username |-> <<"Bob">>,
                  text |-> <<"hi">>, timestamp |-> k, type |-> "message"],
                 k)]

\* two tabs opened against a usable backend whose table holds History
InitHistory ==
    /\ env = "ok"
    /\ now = 0
    /\ genCount = 0
    /\ issued = [c \in Clients |-> 0]
    /\ currentUser = [c \in Clients |-> Null]
    /\ messages = [c \in Clients |-> <<>>]
    /\ usernameInput = [c \in Clients |-> <<>>]
    /\ messageInput = [c \in Clients |-> <<>>]
    /\ isSupabaseConfigured = [c \in Clients |-> TRUE]
    /\ isConnected = [c \in Clients |-> FALSE]
    /\ connectionError = [c \in Clients |-> NoError]
    /\ storage = Null
    /\ rows = History
    /\ calls = [c \in Clients |-> <<>>]
    /\ fetches = [c \in Clients |-> <<>>]
    /\ chan = [c \in Clients |-> "none"]
    /\ pending = [c \in Clients |-> {}]
    /\ delivered = [c \in Clients |-> {}]
    /\ users = [c \in Clients |-> <<>>]
    /\ presence = [c \in Clients |-> Null]
    /\ pchan = [c \in Clients |-> "none"]

\* joins, the historical fetch and the channel status of the two tabs
NextHistory ==
    \E c \in Clients :
       \/ \E s \in NameInputs : SetUsernameInput(c, s)
       \/ HandleCreateUser(c)
       \/ \E i \in 1..MaxRequests :
            \/ DbSelect(c, i)
            \/ \E o \in Outcomes : DbSelectFail(c, i, o)
            \/ FetchReturn(c, i)
       \/ ChannelSubscribed(c)
       \/ ChannelLost(c)

SpecHistory == InitHistory /\ [][NextHistory]_vars

\* the message bodies typed in a running conversation
ChatInputs == {<<" ", "hi">>, <<"yo">>}

\* the user handleCreateUser makes of the k-th generated id at time 0
ChatUser(k) ==
    [id |-> generateId(k), username |-> <<"Alice">>, status |-> "online",
     lastSeen |-> 0]

\* the announcements stored by the joins of two tabs
JoinRows ==
    << InsertRow([userId |-> SystemId, username |-> SystemName,
                  text |-> EnteredText(<<"Alice">>), timestamp |-> 0,
                  type |-> "system"], 1),
       InsertRow([userId |-> SystemId, username |-> SystemName,
                  text |-> EnteredText(<<"Alice">>), timestamp |-> 0,
                  type |-> "system"], 2) >>

\* Two tabs in a running conversation against a usable backend: tab A
\* joined, then tab B; both announcements are stored, A's fetch loaded the
\* first and A's channel delivered the second, B's fetch loaded both; both
\* channels are joined and no request is in flight.  issued counts from
\* here.
InitChat ==
    /\ env = "ok"
    /\ now = 0
    /\ genCount = 2
    /\ issued = [c \in Clients |-> 0]
    /\ currentUser = [c \in Clients |-> IF c = "A" THEN ChatUser(1)
                                        ELSE ChatUser(2)]
    /\ messages = [c \in Clients |->
                     <<FormatMessage(JoinRows[1]), FormatMessage(JoinRows[2])>>]
    /\ usernameInput = [c \in Clients |-> <<>>]
    /\ messageInput = [c \in Clients |-> <<>>]
    /\ isSupabaseConfigured = [c \in Clients |-> TRUE]
    /\ isConnected = [c \in Clients |-> TRUE]
    /\ connectionError = [c \in Clients |-> NoError]
    /\ storage = JSONstringify(ChatUser(2))
    /\ rows = JoinRows
    /\ calls = [c \in Clients |-> <<>>]
    /\ fetches = [c \in Clients |-> <<>>]
    /\ chan = [c \in Clients |-> "joined"]
    /\ pending = [c \in Clients |-> {}]
    /\ delivered = [c \in Clients |-> IF c = "A" THEN {2} ELSE {}]
    /\ users = [c \in Clients |-> <<>>]
    /\ presence = [c \in Clients |-> Null]
    /\ pchan = [c \in Clients |-> "joining"]

\* tab A types and sends while time passes, the inserts are stored and
\* answered, and both tabs receive the notifications once, in the order
\* the rows were stored
NextChat ==
    \/ \E s \in ChatInputs : SetMessageInput("A", s)
    \/ HandleSendMessage("A")
    \/ \E i \in 1..MaxRequests :
         \/ DbInsert("A", i)
         \/ SendMessageReturn("A", i)
    \/ \E c \in Clients : OnInsertInOrder(c)
    \/ \E t \in Instants : Tick(t)

SpecChat == InitChat /\ [][NextChat]_vars

\* two tabs of one browser with no backend configured
InitTabs == Init /\ env = "missing"

NextTabs ==
    \E c \in Clients :
       \/ \E s \in NameInputs : SetUsernameInput(c, s)
       \/ \E s \in MessageInputs : SetMessageInput(c, s)
       \/ HandleCreateUser(c)
       \/ HandleSendMessage(c)
       \/ HandleLogout(c)

SpecTabs == InitTabs /\ [][NextTabs]_vars

\* two tabs of one browser against a usable backend: sessions, page loads
\* and presence; the messages channel and the fetch do not answer
InitPresence == Init /\ env = "ok"

NextPresence ==
    \E c \in Clients :
       \/ \E s \in NameInputs : SetUsernameInput(c, s)
       \/ HandleCreateUser(c)
       \/ HandleLogout(c)
       \/ \E i \in 1..MaxRequests :
            \/ DbInsert(c, i)
            \/ SendMessageReturn(c, i)
       \/ Mount(c)
       \/ PresenceSubscribed(c)
       \/ PresenceSync(c)

SpecPresence == InitPresence /\ [][NextPresence]_vars

\* two tabs joining and heartbeating against a usable backend while time
\* passes
NextClock ==
    \/ \E c \in Clients :
          \/ \E s \in NameInputs : SetUsernameInput(c, s)
          \/ HandleCreateUser(c)
          \/ PresenceSubscribed(c)
          \/ Heartbeat(c)
          \/ PresenceSync(c)
    \/ \E t \in Instants : Tick(t)

SpecClock == InitPresence /\ [][NextClock]_vars

\* one tab joining, heartbeating and signing off against a usable backend
\* while time passes
NextHeartbeat ==
    \/ \E s \in NameInputs : SetUsernameInput("A", s)
    \/ HandleCreateUser("A")
    \/ HandleLogout("A")
    \/ \E i \in 1..MaxRequests :
         \/ DbInsert("A", i)
         \/ SendMessageReturn("A", i)
    \/ PresenceSubscribed("A")
    \/ Heartbeat("A")
    \/ PresenceSync("A")
    \/ \E t \in Instants : Tick(t)

SpecHeartbeat == InitPresence /\ [][NextHeartbeat]_vars

\* one tab chatting against a usable backend that answers, while time
\* passes; notifications arrive once, in the order the rows were stored
NextOrder ==
    \/ \E s \in NameInputs : SetUsernameInput("A", s)
    \/ \E s \in MessageInputs : SetMessageInput("A", s)
    \/ HandleCreateUser("A")
    \/ HandleSendMessage("A")
    \/ \E i \in 1..MaxRequests :
         \/ DbInsert("A", i)
         \/ SendMessageReturn("A", i)
         \/ DbSelect("A", i)
         \/ FetchReturn("A", i)
    \/ ChannelSubscribed("A")
    \/ OnInsertInOrder("A")
    \/ \E t \in Instants : Tick(t)

SpecOrder == InitPresence /\ [][NextOrder]_vars

\* the forms of two tabs under every configuration, blank screen names
\* and blank message bodies included; the backend does not answer
NextJoin ==
    \/ NextTabs
    \/ \E c \in Clients, s \in BlankNameInputs : SetUsernameInput(c, s)
    \/ \E c \in Clients, s \in BlankMessageInputs : SetMessageInput(c, s)

SpecJoin == Init /\ [][NextJoin]_vars

(* ------------------------------ claims --------------------------------- *)

\* how many events of a log carry the id
Copies(log, id) == Cardinality({k \in 1..Len(log) : log[k].id = id})

\* C1: in every reachable state no two events of a Message Log have the
\* same id, whatever the order of fetch completions, repeated insert
\* notifications and local sends.
UniqueIds ==
    \A c \in Clients :
      \A k, l \in 1..Len(messages[c]) :
        k # l => messages[c][k].id # messages[c][l].id

\* C1 witness: a log of two events, one of which has been delivered live
\* and is queued to be delivered again.
UniqueIdsWitness ==
    \E c \in Clients :
      /\ Len(messages[c]) >= 2
      /\ \E r \in delivered[c] \cap pending[c] :
           rows[r].id \in Ids(messages[c])

\* C10: an insert notification for an id the log already holds leaves the
\* log as it is.
IdempotentAppend ==
    [][\A c \in Clients, r \in RowNumbers, again \in BOOLEAN :
         (OnInsert(c, r, again) /\ rows[r].id \in Ids(messages[c]))
           => messages'[c] = messages[c]]_vars

\* C10 witness: a delivered event that is not the last of the log is
\* queued for another delivery on a live channel.
IdempotentAppendWitness ==
    \E c \in Clients :
      \E r \in delivered[c] \cap pending[c] :
        /\ chan[c] = "joined"
        /\ \E k \in 1..(Len(messages[c]) - 1) : messages[c][k].id = rows[r].id

\* C2: when a historical fetch completes with data, the log holds every
\* event the live subscription has delivered so far and every event the
\* fetch returned, each exactly once.
FetchMergesLive ==
    [][\A c \in Clients, i \in 1..MaxRequests :
         (FetchReturn(c, i) /\ fetches[c][i].stage = "data")
           => /\ \A r \in delivered[c] :
                   Copies(messages'[c], rows[r].id) = 1
              /\ \A k \in 1..Len(fetches[c][i].data) :
                   Copies(messages'[c], fetches[c][i].data[k].id) = 1]_vars

\* C3: while a session lasts, an id that is in the log is in the log after
\* every step.
NeverDiscards ==
    [][\A c \in Clients :
         (currentUser[c] # Null /\ currentUser'[c] = currentUser[c])
           => Ids(messages[c]) \subseteq Ids(messages'[c])]_vars

\* whether the log shows an event with this body by this author
Shows(log, message) ==
    \E k \in 1..Len(log) :
      /\ log[k].text = message.text
      /\ log[k].userId = message.userId

\* C4: once handleSendMessage has run to its end, in degraded mode (the
\* local branch) and in networked mode (the await has returned, whatever
\* the insert's outcome and the channel's state), the sender's log shows
\* the message.
SenderSeesOwnMessage ==
    [][\A c \in Clients :
         /\ (/\ currentUser[c] # Null
             /\ Trim(messageInput[c]) # <<>>
             /\ HandleSendMessage(c)
             /\ ~isSupabaseConfigured[c])
              => Shows(messages'[c],
                       [text |-> Trim(messageInput[c]),
                        userId |-> currentUser[c].id])
         /\ \A i \in 1..MaxRequests :
              (SendMessageReturn(c, i) /\ calls[c][i].kind = "send")
                => Shows(messages'[c], calls[c][i].message)]_vars

\* C5: a fetch result that arrives after the session that started the fetch
\* was signed off leaves the log as it is.
LateFetchDiscarded ==
    [][\A c \in Clients, i \in 1..MaxRequests :
         (/\ FetchReturn(c, i)
          /\ \/ currentUser[c] = Null
             \/ currentUser[c].id # fetches[c][i].session)
           => messages'[c] = messages[c]]_vars

\* the arrival announcements for this name that the log shows
Announcements(log, name) ==
    {k \in 1..Len(log) :
       log[k].type = "system" /\ log[k].text = EnteredText(name)}

\* the join of c has settled on a history that holds its announcement only
JoinSettled(c) ==
    /\ currentUser[c] # Null
    /\ calls[c] = <<>>
    /\ fetches[c] = <<>>
    /\ chan[c] = "joined"
    /\ pending[c] = {}
    /\ Len(rows) = 1
    /\ rows[1].type = "system"
    /\ rows[1].text = EnteredText(currentUser[c].username)

\* C6: when the fetch of a join completes with data and leaves the join
\* settled (announcement stored and acknowledged, channel subscribed, no
\* notification queued), the log shows exactly one arrival announcement.
JoinShowsOneAnnouncement ==
    [][\A c \in Clients, i \in 1..MaxRequests :
         (FetchReturn(c, i) /\ fetches[c][i].stage = "data" /\ JoinSettled(c)')
           => Cardinality(Announcements(messages'[c],
                                        currentUser[c].username)) = 1]_vars

\* C7: when a stored message has been delivered live to a client and that
\* client has no fetch or notification outstanding, its log shows exactly
\* one event with the row's id, body and author.
DeliveredExactlyOnce ==
    \A c \in Clients :
      \A r \in delivered[c] :
        (rows[r].type = "message" /\ fetches[c] = <<>> /\ pending[c] = {})
          => /\ Copies(messages[c], rows[r].id) = 1
             /\ Shows(messages[c], FormatMessage(rows[r]))

\* the message events tab c sent during the session of tab d (ids are
\* drawn in order, so their ids were drawn after d's) that d does not hold
Unseen(c, d) ==
    {k \in 1..Len(messages[c]) :
       /\ messages[c][k].type = "message"
       /\ messages[c][k].id[2] > currentUser[d].id[2]
       /\ messages[c][k].id \notin Ids(messages[d])}

IsTrimOf(t, s) ==
    /\ t # <<>> => (t[1] # " " /\ t[Len(t)] # " ")
    /\ \E a, b \in 0..Len(s) :
         /\ a + Len(t) + b = Len(s)
         /\ \A k \in 1..Len(s) :
              IF k <= a \/ k > a + Len(t) THEN s[k] = " "
              ELSE s[k] = t[k - a]

\* C9: in degraded mode a send appends exactly one message event to the end
\* of the tab's log, with an id no log holds, the current user as author
\* and the trimmed input as body, and nothing is sent to the backend.
DegradedSend ==
    [][\A c \in Clients :
         (env = "missing" /\ HandleSendMessage(c))
           => /\ Len(messages'[c]) = Len(messages[c]) + 1
              /\ SubSeq(messages'[c], 1, Len(messages[c])) = messages[c]
              /\ LET m == messages'[c][Len(messages'[c])]
                 IN /\ m.type = "message"
                    /\ m.userId = currentUser[c].id
                    /\ m.username = currentUser[c].username
                    /\ IsTrimOf(m.text, messageInput[c])
                    /\ m.text # <<>>
                    /\ \A d \in Clients : m.id \notin Ids(messages[d])
              /\ UNCHANGED <<issued, rows, calls, fetches>>]_vars

\* C9 witness: a tab in degraded mode whose log ends with its user's
\* message "hi".
DegradedSendWitness ==
    \E c \in Clients :
      /\ env = "missing"
      /\ currentUser[c] # Null
      /\ Len(messages[c]) >= 2
      /\ messages[c][Len(messages[c])].type = "message"
      /\ messages[c][Len(messages[c])].userId = currentUser[c].id
      /\ messages[c][Len(messages[c])].text = <<"hi">>

\* C13: when the insert of a sendMessage call has failed (error result or
\* exception) and the call returns, connectionError holds the failure text,
\* every log is as it was, the session is as it was unless the call was the
\* sign-off's, and nothing is sent again: the call is dropped, no new
\* insert is issued and the table is unchanged.
PublishFailureNotRetried ==
    [][\A c \in Clients, i \in 1..MaxRequests :
         (SendMessageReturn(c, i) /\ calls[c][i].stage \in Outcomes)
           => /\ connectionError'[c] \in {"Failed to send",
                                          "Failed to send message"}
              /\ messages' = messages
              /\ calls[c][i].kind # "logout"
                   => currentUser'[c] = currentUser[c]
              /\ issued' = issued
              /\ rows' = rows
              /\ calls'[c] = RemoveAt(calls[c], i)
              /\ fetches' = fetches]_vars

\* C13 witness: a session whose join was stored and whose send failed and
\* has returned: one row, no call left, the failure text shown.
PublishFailureNotRetriedWitness ==
    \E c \in Clients :
      /\ currentUser[c] # Null
      /\ issued[c] = 2
      /\ calls[c] = <<>>
      /\ Len(rows) = 1
      /\ rows[1].type = "system"
      /\ messages[c] = <<>>
      /\ connectionError[c] \in {"Failed to send", "Failed to send message"}

\* C14: when the historical fetch of the current session has failed (error
\* result or exception) and returns, connectionError holds the failure
\* text and the log holds no historical event: every event in it has been
\* delivered by the live subscription.
FetchFailureLeavesLogEmpty ==
    [][\A c \in Clients, i \in 1..MaxRequests :
         (/\ FetchReturn(c, i)
          /\ fetches[c][i].stage \in Outcomes
          /\ currentUser[c] # Null
          /\ currentUser[c].id = fetches[c][i].session)
           => /\ connectionError'[c] \in {"Database error",
                                          "Failed to connect to chat server"}
              /\ \A k \in 1..Len(messages'[c]) :
                   \E r \in delivered[c] :
                     rows[r].id = messages'[c][k].id]_vars

\* the string has no character that is not whitespace
IsBlank(s) == \A k \in 1..Len(s) : s[k] = " "

\* C15: handleCreateUser on an empty or whitespace-only screen name changes
\* nothing: no user, no saved item, no session channels, no insert, no log
\* entry, and every other variable as it was.
BlankNameRejected ==
    [][\A c \in Clients :
         (IsBlank(usernameInput[c]) /\ HandleCreateUser(c))
           => UNCHANGED vars]_vars

\* C15 witness: a tab without a session whose screen-name field holds
\* whitespace only, in a browser where another tab has joined.
BlankNameRejectedWitness ==
    \E c, d \in Clients :
      /\ currentUser[c] = Null
      /\ usernameInput[c] = <<" ", " ">>
      /\ currentUser[d] # Null

\* C16: in every reachable state the mode flag that join, send and leave
\* branch on says "networked" exactly when a usable remote client exists.
ModeMatchesClient ==
    \A c \in Clients : isSupabaseConfigured[c] = supabase

\* C17: in networked mode every step that ends the session of a tab (user
\* cleared, channels unsubscribed, presence untracked) is the return of
\* the awaited insert of that tab's departure announcement.
LeaveAnnouncesBeforeTeardown ==
    [][\A c \in Clients :
         (/\ isSupabaseConfigured[c] /\ supabase
          /\ currentUser[c] # Null
          /\ \/ currentUser'[c] = Null
             \/ chan[c] # "none" /\ chan'[c] = "none"
             \/ pchan[c] # "none" /\ pchan'[c] = "none"
             \/ presence[c] # Null /\ presence'[c] = Null)
           => \E i \in 1..MaxRequests :
                /\ SendMessageReturn(c, i)
                /\ calls[c][i].kind = "logout"
                /\ calls[c][i].stage # "sent"
                /\ calls[c][i].message.text
                     = LeftText(currentUser[c].username)]_vars

\* C17 witness: a networked tab signed off after its departure
\* announcement was stored.
LeaveAnnouncesBeforeTeardownWitness ==
    \E c \in Clients :
      /\ env = "ok"
      /\ currentUser[c] = Null
      /\ storage = Null
      /\ chan[c] = "none"
      /\ \E r \in 1..Len(rows) : rows[r].text = LeftText(<<"Alice">>)

\* C12: in every reachable state the online view of every tab holds at
\* most one entry per participant id.
OnlineViewUniqueIds ==
    \A c \in Clients :
      \A k, l \in 1..Len(getOnlineUsers(c)) :
        k # l => getOnlineUsers(c)[k].id # getOnlineUsers(c)[l].id

\* C18: in every state a tab with a session finds its own user in the
\* saved item, and a saved item exists only while some tab has a session;
\* so loading the page again restores the same participant, and no session
\* after a sign-off.
IdentityPersisted ==
    /\ \A c \in Clients :
         currentUser[c] # Null
           => storage # Null /\ JSONparse(storage) = currentUser[c]
    /\ storage # Null => \E c \in Clients : currentUser[c] # Null

\* C19: when the sign-off of a tab completes, the presences the server
\* holds, which every other client adopts at its next sync, have no entry
\* for the participant who signed off.
GracefulLeaveRemovesPresence ==
    [][\A c \in Clients, i \in 1..MaxRequests :
         (/\ SendMessageReturn(c, i)
          /\ calls[c][i].kind = "logout"
          /\ currentUser[c] # Null)
           => \A d \in Clients :
                presence'[d] # Null
                  => presence'[d].user_id # currentUser[c].id]_vars

\* C11: in every state the online view of a tab is its users list without
\* the entries last seen StalenessWindow or more before now: an entry is in
\* the view exactly when lastSeen + StalenessWindow > now, in the order of
\* the list.
StalenessFilter ==
    \A c \in Clients :
      LET view == getOnlineUsers(c)
          keep == {k \in 1..Len(users[c]) :
                     users[c][k].lastSeen + StalenessWindow > now}
      IN /\ Len(view) = Cardinality(keep)
         /\ \A k \in keep : \E l \in 1..Len(view) : view[l] = users[c][k]
         /\ \A l \in 1..Len(view) :
              \E k \in keep : view[l] = users[c][k]
         /\ \A k \in 1..Len(users[c]) :
              /\ now - users[c][k].lastSeen >= 60000
                   => \A l \in 1..Len(view) : view[l] # users[c][k]
              /\ now - users[c][k].lastSeen <= 59000
                   => \E l \in 1..Len(view) : view[l] = users[c][k]

\* C11 witness: a users list with one participant last seen exactly 60 s
\* ago and one last seen 59 s ago, of which the view shows one.
StalenessFilterWitness ==
    \E c \in Clients :
      /\ Len(getOnlineUsers(c)) = 1
      /\ \E k, l \in 1..Len(users[c]) :
           /\ now - users[c][k].lastSeen = 60000
           /\ now - users[c][l].lastSeen = 59000

\* C20: in every reachable state every log is in ascending order of
\* timestamp.
LogOrdered ==
    \A c \in Clients :
      \A k, l \in 1..Len(messages[c]) :
        k < l => messages[c][k].timestamp <= messages[c][l].timestamp

\* C23: isConnected changes only in the status callback of the messages
\* channel: it becomes true only on SUBSCRIBED, which also clears
\* connectionError; CLOSED or CHANNEL_ERROR makes it false and sets the
\* 'connection lost' text; a later SUBSCRIBED makes it true again.
ConnectionStatusMachine ==
    [][\A c \in Clients :
         /\ isConnected'[c] # isConnected[c]
              => ChannelSubscribed(c) \/ ChannelLost(c)
         /\ (~isConnected[c] /\ isConnected'[c]) => ChannelSubscribed(c)
         /\ ChannelSubscribed(c)
              => isConnected'[c] /\ connectionError'[c] = NoError
         /\ ChannelLost(c)
              => /\ ~isConnected'[c]
                 /\ connectionError'[c] = "Realtime connection lost"]_vars

\* C23 witness: a channel that was live (it has delivered an event) and is
\* lost: the flag is false and the 'connection lost' text is shown.
ConnectionStatusMachineWitness ==
    \E c \in Clients :
      /\ chan[c] = "lost"
      /\ ~isConnected[c]
      /\ connectionError[c] = "Realtime connection lost"
      /\ delivered[c] # {}

\* C26: every run of handleSendMessage on a non-empty body in a session
\* either issues an insert or appends an event to the tab's log.
SendNeverDropped ==
    [][\A c \in Clients :
         (/\ HandleSendMessage(c)
          /\ currentUser[c] # Null
          /\ ~IsBlank(messageInput[c]))
           => \/ Len(calls'[c]) = Len(calls[c]) + 1
              \/ Len(messages'[c]) = Len(messages[c]) + 1]_vars

\* the message events with a blank body among a sequence of events or rows
BlankMessages(s) ==
    {k \in 1..Len(s) : s[k].type = "message" /\ IsBlank(s[k].text)}

\* C28: handleSendMessage on an empty or whitespace-only body, or without
\* a user, changes nothing; and after every step no log, no insert in
\* flight and no row holds a message event with a blank body.
BlankSendRejected ==
    [][/\ \A c \in Clients :
            (/\ IsBlank(messageInput[c]) \/ currentUser[c] = Null
             /\ HandleSendMessage(c))
              => UNCHANGED vars
       /\ BlankMessages(rows') = {}
       /\ \A c \in Clients :
            /\ BlankMessages(messages'[c]) = {}
            /\ \A i \in 1..Len(calls'[c]) :
                 calls'[c][i].message.type = "message"
                   => ~IsBlank(calls'[c][i].message.text)]_vars

\* C28 witness: one tab in a session with a whitespace-only message field,
\* another signed off with text left in its message field.
BlankSendRejectedWitness ==
    \E c, d \in Clients :
      /\ currentUser[c] # Null
      /\ messageInput[c] = <<" ">>
      /\ currentUser[d] = Null
      /\ ~IsBlank(messageInput[d])

\* C22: the select of the historical fetch returns at most 100 rows in
\* ascending order of timestamp, and they are the most recent ones: no row
\* left out is later than a row returned.
FetchReturnsMostRecent ==
    [][\A c \in Clients, i \in 1..MaxRequests :
         DbSelect(c, i)
           => LET data == fetches'[c][i].data
                  got == {data[k].id : k \in 1..Len(data)}
              IN /\ Len(data) <= 100
                 /\ Len(data) = Min(Len(rows), 100)
                 /\ \A k, l \in 1..Len(data) :
                      k < l => getTime(data[k].timestamp)
                                 <= getTime(data[l].timestamp)
                 /\ \A k \in 1..Len(data) :
                      \E r \in 1..Len(rows) : rows[r] = data[k]
                 /\ \A r \in 1..Len(rows), k \in 1..Len(data) :
                      rows[r].id \notin got
                        => getTime(rows[r].timestamp)
                             <= getTime(data[k].timestamp)]_vars

\* C21: in the log of every tab, two messages of one other sender stand in
\* the order they were sent: the one sent earlier is at the earlier
\* position.
SameSenderOrder ==
    \A c \in Clients :
      \A k, l \in 1..Len(messages[c]) :
        /\ k < l
        /\ messages[c][k].type = "message"
        /\ messages[c][l].type = "message"
        /\ messages[c][k].userId = messages[c][l].userId
        /\ currentUser[c] # Null
        /\ messages[c][k].userId # currentUser[c].id
        => messages[c][k].timestamp <= messages[c][l].timestamp

\* C27: a send invoked while an earlier send of the same text still awaits
\* its insert issues no second insert, and the return of a send does not
\* erase an input that no longer holds the text that was sent.
PublishedAtMostOnce ==
    [][\A c \in Clients :
         /\ ( /\ currentUser[c] # Null
              /\ Trim(messageInput[c]) # <<>>
              /\ \E i \in 1..Len(calls[c]) :
                   /\ calls[c][i].kind = "send"
                   /\ calls[c][i].message.text = Trim(messageInput[c])
              /\ HandleSendMessage(c) )
              => calls'[c] = calls[c]
         /\ \A i \in 1..MaxRequests :
              ( /\ SendMessageReturn(c, i)
                /\ calls[c][i].kind = "send"
                /\ Trim(messageInput[c]) # calls[c][i].message.text )
                => messageInput'[c] = messageInput[c]]_vars

\* C25: a live append leaves every event already in the log at its position
\* and unchanged; the event of a notification whose id the log does not
\* hold is placed at the end, whatever its timestamp.
AppendOnlyDisplay ==
    [][\A c \in Clients, r \in RowNumbers, again \in BOOLEAN :
         OnInsert(c, r, again)
           => LET old == messages[c]
                  new == messages'[c]
                  event == FormatMessage(rows[r])
              IN /\ Len(new) >= Len(old)
                 /\ SubSeq(new, 1, Len(old)) = old
                 /\ (\A k \in 1..Len(old) : old[k].id # event.id)
                      => new = Append(old, event)]_vars

\* a notification has put an event at the end of a log that holds a later
\* event before it
AppendOnlyDisplayWitness ==
    \E c \in Clients :
      LET n == Len(messages[c])
      IN /\ n >= 2
         /\ \E r \in delivered[c] :
              /\ r <= Len(rows)
              /\ messages[c][n] = FormatMessage(rows[r])
         /\ \E k \in 1..(n - 1) :
              messages[c][k].timestamp > messages[c][n].timestamp

\* C24: a tab's presence is announced only by the subscription callback or
\* the interval of a running session, with the id of the tab's current
\* user and the current time as last_seen; once the tab has no current
\* user its presence channel and interval are gone, so no heartbeat with
\* the old identity can follow.
HeartbeatOnlyInSession ==
    [][\A c \in Clients :
         /\ (presence'[c] # presence[c] /\ presence'[c] # Null)
              => /\ PresenceSubscribed(c) \/ Heartbeat(c)
                 /\ currentUser[c] # Null
                 /\ currentUser'[c] = currentUser[c]
                 /\ presence'[c].user_id = currentUser[c].id
                 /\ presence'[c].last_seen = now
         /\ currentUser'[c] = Null => pchan'[c] = "none"
         /\ Heartbeat(c) => pchan'[c] = "joined" /\ currentUser'[c] # Null]_vars

\* a tab has signed off after its presence was announced and synced, and
\* time has passed since
HeartbeatOnlyInSessionWitness ==
    \E c \in Clients :
      /\ currentUser[c] = Null
      /\ pchan[c] = "none"
      /\ presence[c] = Null
      /\ users[c] # <<>>
      /\ now > users[c][1].lastSeen

=============================================================================
